---- MODULE Spec2Model ----
(***************************************************************************)
(* helm push-artifactory (cmd/push/main.go): one invocation of the plugin  *)
(* as a state machine.  The process starts with its command line and its   *)
(* environment, parses the flags (newPushCmd), runs the command (RunE:     *)
(* arity check, setFieldsFromEnv) and then walks through push() one        *)
(* collaborator call at a time.  Calls into pkg/helm, pkg/repo and         *)
(* pkg/artifactory are recorded in `calls`; their results (success, error, *)
(* HTTP status, body) are chosen nondeterministically.                     *)
(***************************************************************************)
EXTENDS Integers, Sequences, FiniteSets, TLC

VARIABLES
    pc,        \* position of the process in main / RunE / push
    posArgs,   \* os.Args: the positional arguments
    argFlags,  \* os.Args: flag name -> the values given for it, in order
    environ,   \* environment: variable name -> <<>> (unset) or <<value>>
    p,         \* the pushCmd struct
    repo,      \* push(): var repo *helmrepo.Repo; <<>> is nil
    chart,     \* push(): chart; <<>> before it is loaded
    client,    \* push(): the options NewClient was called with; <<>> before
    tmp,       \* the scratch directory: "none", "exists" or "removed"
    defers,    \* push(): the deferred calls registered so far
    calls,     \* the calls made to collaborators, in order: [name, ok, status]
    resp,      \* the *http.Response in hand: <<>> or <<status code>>
    rbody,     \* what ioutil.ReadAll(resp.Body) returned: <<>> or <<bytes>>
    err,       \* the error being returned: <<>> is nil
    out,       \* the lines printed on standard output
    exitCode   \* <<>> while the process runs, then <<code>>

vars == <<pc, posArgs, argFlags, environ, p, repo, chart, client, tmp, defers,
          calls, resp, rbody, err, out, exitCode>>

(***************************************************************************)
(* Bounds of the model.                                                    *)
(***************************************************************************)
\* How many of the command's fields are given (by flag and/or environment)
\* in one invocation.
MaxFields == 1
\* How many times --set is given at most.
MaxOverrides == 1

(***************************************************************************)
(* Program constants.                                                      *)
(***************************************************************************)
NumArgs == 2
StatusCreated == 201
StatusOK == 200

(***************************************************************************)
(* Text.  Repository arguments and URLs are sequences of characters, so    *)
(* that the regular expression of push() is computed on them; every other  *)
(* value is an atom.                                                       *)
(***************************************************************************)
HasPrefix(s, pre) ==
    /\ Len(s) >= Len(pre)
    /\ SubSeq(s, 1, Len(pre)) = pre

\* MatchURL with the pattern `^https://`: plain http is taken for a name.
MatchURLHttpsOnly(s) ==
    HasPrefix(s, <<"h", "t", "t", "p", "s", ":", "/", "/">>)

\* regexp.MustCompile(`^https?://`).MatchString(s)
MatchURL(s) ==
    \/ HasPrefix(s, <<"h", "t", "t", "p", ":", "/", "/">>)
    \/ HasPrefix(s, <<"h", "t", "t", "p", "s", ":", "/", "/">>)

\* url.ParseRequestURI(s) returns no error.  Of the arguments of the model
\* it rejects the one with a blank in the host.
ParseRequestURIOk(s) ==
    /\ Len(s) > 0
    /\ \A i \in 1..Len(s) : s[i] # " "

\* strconv.ParseBool
ParseBool(s) ==
    IF s \in {"1", "t", "T", "TRUE", "true", "True"}
    THEN [value |-> TRUE, ok |-> TRUE]
    ELSE IF s \in {"0", "f", "F", "FALSE", "false", "False"}
    THEN [value |-> FALSE, ok |-> TRUE]
    ELSE [value |-> FALSE, ok |-> FALSE]

\* A formatted text, fmt.Sprintf(format, code, s), kept as the format and
\* what it is filled with; a text without verbs has code 0 and s "".
Sprintf(format, code, s) == [format |-> format, code |-> code, s |-> s]

Text(t) == Sprintf(t, 0, "")

\* An error value is its message: fmt.Errorf(format, code, s), errors.New(t)
\* and the collaborators' own errors.
Errorf(format, code, s) == Sprintf(format, code, s)

ErrorNew(t) == Text(t)

(***************************************************************************)
(* The command line and the environment.                                   *)
(***************************************************************************)
StringFlags == {"version", "app-version", "path", "username", "password",
                "access-token", "api-key", "ca-file", "cert-file", "key-file"}

BoolFlags == {"insecure", "skip-reindex"}

FlagNames == StringFlags \cup BoolFlags \cup {"set"}

StringEnv == {"HELM_REPO_PATH", "HELM_REPO_USERNAME", "HELM_REPO_PASSWORD",
              "HELM_REPO_ACCESS_TOKEN", "HELM_REPO_API_KEY", "HELM_REPO_CA_FILE",
              "HELM_REPO_CERT_FILE", "HELM_REPO_KEY_FILE"}

BoolEnv == {"HELM_REPO_INSECURE", "HELM_REPO_SKIP_REINDEX"}

EnvNames == StringEnv \cup BoolEnv

\* The environment variable the flag's help text names; "" when it names none.
EnvOf(flag) ==
    CASE flag = "path" -> "HELM_REPO_PATH"
      [] flag = "username" -> "HELM_REPO_USERNAME"
      [] flag = "password" -> "HELM_REPO_PASSWORD"
      [] flag = "access-token" -> "HELM_REPO_ACCESS_TOKEN"
      [] flag = "api-key" -> "HELM_REPO_API_KEY"
      [] flag = "ca-file" -> "HELM_REPO_CA_FILE"
      [] flag = "cert-file" -> "HELM_REPO_CERT_FILE"
      [] flag = "key-file" -> "HELM_REPO_KEY_FILE"
      [] flag = "insecure" -> "HELM_REPO_INSECURE"
      [] flag = "skip-reindex" -> "HELM_REPO_SKIP_REINDEX"
      [] OTHER -> ""

\* The value a flag holds after f.Parse: the last one given, else its default.
StringFlag(name, default) ==
    IF Len(argFlags[name]) > 0 THEN argFlags[name][Len(argFlags[name])] ELSE default

BoolFlag(name, default) ==
    IF Len(argFlags[name]) > 0
    THEN ParseBool(argFlags[name][Len(argFlags[name])]).value
    ELSE default

\* os.LookupEnv
LookupEnv(name) ==
    IF Len(environ[name]) > 0
    THEN [v |-> environ[name][1], ok |-> TRUE]
    ELSE [v |-> "", ok |-> FALSE]

\* The values the model gives a flag on the command line.
FlagChoices(flag) ==
    IF flag \in BoolFlags THEN {<<>>, <<"true">>, <<"false">>}
    ELSE IF flag = "set" THEN {[i \in 1..n |-> "k=v"] : n \in 0..MaxOverrides}
    ELSE {<<>>, <<"flag-value">>}

\* The values the model gives an environment variable.
EnvChoices(name) ==
    IF name \in BoolEnv THEN {<<>>, <<"true">>, <<"false">>, <<"yes">>}
    ELSE IF name \in StringEnv THEN {<<>>, <<"">>, <<"env-value">>}
    ELSE {<<>>}

\* The command lines and environments of the model: at most MaxFields fields
\* are given, each by its flag, by its environment variable, or by both.
Inputs ==
    LET given == {G \in SUBSET FlagNames : Cardinality(G) <= MaxFields}
        choices == UNION {FlagChoices(f) : f \in FlagNames}
                       \cup UNION {EnvChoices(e) : e \in EnvNames}
        pick(G) == {c \in [G -> choices \X choices] :
                       \A f \in G : /\ c[f][1] \in FlagChoices(f)
                                    /\ c[f][2] \in EnvChoices(EnvOf(f))}
    IN  UNION {{[flags |-> [f \in FlagNames |-> IF f \in G THEN c[f][1] ELSE <<>>],
                 env |-> [e \in EnvNames |->
                            IF \E f \in G : EnvOf(f) = e
                            THEN c[CHOOSE f \in G : EnvOf(f) = e][2]
                            ELSE <<>>]] : c \in pick(G)} : G \in given}

\* The repository arguments of the model.
URLHttps == <<"h", "t", "t", "p", "s", ":", "/", "/", "a", "/", "r">>
URLHttp == <<"h", "t", "t", "p", ":", "/", "/", "a", "/", "r">>
URLBlank == <<"h", "t", "t", "p", "s", ":", "/", "/", "a", " ", "b">>
NameStable == <<"s", "t", "a", "b", "l", "e">>
NameBare == <<"h", "t", "t", "p", "s">>
NameUnknown == <<"n", "o", "p", "e">>
URLStable == <<"h", "t", "t", "p", "s", ":", "/", "/", "s", "/", "r">>
URLBare == <<"h", "t", "t", "p", ":", "/", "/", "b", "/", "r">>

RepoArgs == {URLHttps, URLHttp, URLBlank, NameStable, NameBare, NameUnknown}

ChartArg == <<"c", "h", "a", "r", "t">>

\* The positional arguments of the model: the two the command needs, one
\* missing, one too many.
PosArgChoices ==
    {<<ChartArg, r>> : r \in RepoArgs}
        \cup {<<ChartArg>>, <<ChartArg, URLHttps, NameStable>>}

(***************************************************************************)
(* The local repository list (pkg/repo).                                   *)
(***************************************************************************)
RepoFile ==
    (NameStable :> [URL |-> URLStable, Username |-> "stored-user",
                    Password |-> "stored-pass", CAFile |-> "stored-ca",
                    CertFile |-> "stored-cert", KeyFile |-> "stored-key"])
    @@ (NameBare :> [URL |-> URLBare, Username |-> "", Password |-> "",
                     CAFile |-> "", CertFile |-> "", KeyFile |-> ""])

\* helmrepo.GetRepoByName: the entry of that name, or an error.
GetRepoByName(name) ==
    IF name \in DOMAIN RepoFile
    THEN [ok |-> TRUE, repo |-> <<RepoFile[name]>>]
    ELSE [ok |-> FALSE, repo |-> <<>>]

(***************************************************************************)
(* Response bodies and the error decoder.                                  *)
(***************************************************************************)
\* A JSON document as encoding/json sees it: what kind of value it is, what
\* its "errors" member is, and the elements of that member when it is a
\* list (typeOK: the element decodes into an artifactoryError).
JSON(kind, errorsKind, errors) ==
    [kind |-> kind, errorsKind |-> errorsKind, errors |-> errors]

Elem(typeOK, status, message) ==
    [typeOK |-> typeOK, Status |-> status, Message |-> message]

\* The response bodies of the model, each with the document it holds.
BodyJSON ==
    ("" :> JSON("invalid", "absent", <<>>))
    @@ ("<html>Bad Gateway</html>" :> JSON("invalid", "absent", <<>>))
    @@ ("null" :> JSON("null", "absent", <<>>))
    @@ ("[]" :> JSON("array", "absent", <<>>))
    @@ ("{}" :> JSON("object", "absent", <<>>))
    @@ ("{\"errors\":null}" :> JSON("object", "null", <<>>))
    @@ ("{\"errors\":\"oops\"}" :> JSON("object", "other", <<>>))
    @@ ("{\"errors\":[]}" :> JSON("object", "list", <<>>))
    @@ ("{\"errors\":[{\"status\":409,\"message\":\"conflict\"}]}" :>
            JSON("object", "list", <<Elem(TRUE, 409, "conflict")>>))
    @@ ("{\"errors\":[{\"status\":404}]}" :>
            JSON("object", "list", <<Elem(TRUE, 404, "")>>))
    @@ ("{\"errors\":[{\"status\":\"x\",\"message\":\"m\"}]}" :>
            JSON("object", "list", <<Elem(FALSE, 0, "m")>>))
    @@ ("{\"errors\":[{\"status\":401,\"message\":\"first\"},{\"status\":500,\"message\":\"second\"}]}" :>
            JSON("object", "list",
                 <<Elem(TRUE, 401, "first"), Elem(TRUE, 500, "second")>>))

Bodies == DOMAIN BodyJSON

\* json.Unmarshal(b, &response) with response := errorResponse{}: the error
\* (ok) and the Errors the struct holds afterwards.
Unmarshal(b) ==
    LET j == BodyJSON[b]
        rec(e) == [Status |-> e.Status, Message |-> e.Message]
    IN  CASE j.kind = "invalid" -> [ok |-> FALSE, Errors |-> <<>>]
          [] j.kind = "null" -> [ok |-> TRUE, Errors |-> <<>>]
          [] j.kind = "object" /\ j.errorsKind \in {"absent", "null"} ->
                 [ok |-> TRUE, Errors |-> <<>>]
          [] j.kind = "object" /\ j.errorsKind = "list" ->
                 [ok |-> \A i \in 1..Len(j.errors) : j.errors[i].typeOK,
                  Errors |-> [i \in 1..Len(j.errors) |-> rec(j.errors[i])]]
          [] OTHER -> [ok |-> FALSE, Errors |-> <<>>]

FormatGeneric == "%d: could not properly parse response JSON: %s"
FormatMessage == "%d: %s"

\* GetArtifactoryError prefixing the record's own status, not the response's.
GetArtifactoryErrorRecordStatus(b, code) ==
    LET response == Unmarshal(b)
    IN  IF ~response.ok \/ Len(response.Errors) = 0
        THEN Errorf(FormatGeneric, code, b)
        ELSE Errorf(FormatMessage, response.Errors[1].Status, response.Errors[1].Message)

GetArtifactoryError(b, code) ==
    LET response == Unmarshal(b)
    IN  IF ~response.ok \/ Len(response.Errors) = 0
        THEN Errorf(FormatGeneric, code, b)
        ELSE Errorf(FormatMessage, code, response.Errors[1].Message)

\* The statuses the server answers with in the model.
UploadStatuses == {200, 201, 409, 500}
ReindexStatuses == {200, 201, 500}

\* What ioutil.ReadAll(resp.Body) returns in the model: an error (<<>>) or
\* the bytes of the body.
ReadOutcomes ==
    {<<>>, <<"<html>Bad Gateway</html>">>,
     <<"{\"errors\":[{\"status\":409,\"message\":\"conflict\"}]}">>}

(***************************************************************************)
(* The process.                                                            *)
(***************************************************************************)
\* p := &pushCmd{}
ZeroPushCmd ==
    [chartName |-> <<>>, chartVersion |-> "", appVersion |-> "",
     repository |-> <<>>, path |-> "", username |-> "", password |-> "",
     accessToken |-> "", apiKey |-> "", caFile |-> "", certFile |-> "",
     keyFile |-> "", insecureSkipVerify |-> FALSE, skipReindex |-> FALSE,
     overrides |-> <<>>]

Init ==
    /\ pc = "start"
    /\ posArgs \in PosArgChoices
    /\ \E i \in Inputs : argFlags = i.flags /\ environ = i.env
    /\ p = ZeroPushCmd
    /\ repo = <<>>
    /\ chart = <<>>
    /\ client = <<>>
    /\ tmp = "none"
    /\ defers = <<>>
    /\ calls = <<>>
    /\ resp = <<>>
    /\ rbody = <<>>
    /\ err = <<>>
    /\ out = <<>>
    /\ exitCode = <<>>

\* A call to a collaborator and whether it returned without error; a request
\* that the server answered carries the status of the answer.
Call(name, ok) == [name |-> name, ok |-> ok, status |-> 0]

Answered(name, status) == [name |-> name, ok |-> TRUE, status |-> status]

\* f.Parse(args): every flag variable holds its flag's value or its default.
ParseFlags(q) ==
    [q EXCEPT
       !.chartVersion = StringFlag("version", ""),
       !.appVersion = StringFlag("app-version", ""),
       !.overrides = argFlags["set"],
       !.path = StringFlag("path", ""),
       !.username = StringFlag("username", ""),
       !.password = StringFlag("password", ""),
       !.accessToken = StringFlag("access-token", ""),
       !.apiKey = StringFlag("api-key", ""),
       !.caFile = StringFlag("ca-file", ""),
       !.certFile = StringFlag("cert-file", ""),
       !.keyFile = StringFlag("key-file", ""),
       !.insecureSkipVerify = BoolFlag("insecure", FALSE),
       !.skipReindex = BoolFlag("skip-reindex", FALSE)]

\* main: newPushCmd(os.Args[1:]) binds the flags to the fields and parses.
NewPushCmd ==
    /\ pc = "start"
    /\ p' = ParseFlags(p)
    /\ pc' = "execute"
    /\ UNCHANGED <<posArgs, argFlags, environ, repo, chart, client, tmp, defers,
                   calls, resp, rbody, err, out, exitCode>>

\* A string field takes the variable's value when the variable is set and
\* the field is still empty.
EnvString(cur, name) ==
    IF LookupEnv(name).ok /\ cur = "" THEN LookupEnv(name).v ELSE cur

\* A boolean field takes the variable's parsed value when the variable is set.
EnvBool(cur, name) ==
    IF LookupEnv(name).ok THEN ParseBool(LookupEnv(name).v).value ELSE cur

SetFieldsFromEnv(q) ==
    [q EXCEPT
       !.path = EnvString(q.path, "HELM_REPO_PATH"),
       !.username = EnvString(q.username, "HELM_REPO_USERNAME"),
       !.password = EnvString(q.password, "HELM_REPO_PASSWORD"),
       !.accessToken = EnvString(q.accessToken, "HELM_REPO_ACCESS_TOKEN"),
       !.apiKey = EnvString(q.apiKey, "HELM_REPO_API_KEY"),
       !.caFile = EnvString(q.caFile, "HELM_REPO_CA_FILE"),
       !.certFile = EnvString(q.certFile, "HELM_REPO_CERT_FILE"),
       !.keyFile = EnvString(q.keyFile, "HELM_REPO_KEY_FILE"),
       !.insecureSkipVerify = EnvBool(q.insecureSkipVerify, "HELM_REPO_INSECURE"),
       !.skipReindex = EnvBool(q.skipReindex, "HELM_REPO_SKIP_REINDEX")]

\* cmd.Execute() runs RunE: the arity check, the two positional arguments,
\* setFieldsFromEnv; push() follows.
RunE ==
    /\ pc = "execute"
    /\ IF Len(posArgs) # NumArgs
       THEN /\ err' = <<ErrorNew("This command needs 2 arguments: name of chart, repository URL")>>
            /\ pc' = "main"
            /\ p' = p
       ELSE /\ p' = SetFieldsFromEnv([p EXCEPT !.chartName = posArgs[1],
                                               !.repository = posArgs[2]])
            /\ pc' = "resolve"
            /\ err' = err
    /\ UNCHANGED <<posArgs, argFlags, environ, repo, chart, client, tmp, defers,
                   calls, resp, rbody, out, exitCode>>

\* A return statement of push(): the deferred calls run next.
Return(e) ==
    /\ err' = e
    /\ pc' = "return"

\* push(): the repository argument is a URL to check, or a name to look up.
ResolveRepository ==
    /\ pc = "resolve"
    /\ IF MatchURL(p.repository)
       THEN /\ calls' = Append(calls, Call("ParseRequestURI", ParseRequestURIOk(p.repository)))
            /\ repo' = repo
            /\ IF ParseRequestURIOk(p.repository)
               THEN pc' = "chart" /\ err' = err
               ELSE Return(<<ErrorNew("parse: invalid URI for request")>>)
       ELSE /\ calls' = Append(calls, Call("GetRepoByName", GetRepoByName(p.repository).ok))
            /\ repo' = GetRepoByName(p.repository).repo
            /\ IF GetRepoByName(p.repository).ok
               THEN pc' = "chart" /\ err' = err
               ELSE Return(<<ErrorNew("no repo named")>>)
    /\ UNCHANGED <<posArgs, argFlags, environ, p, chart, client, tmp, defers,
                   resp, rbody, out, exitCode>>

\* chart.SetVersion / chart.SetAppVersion when the flags are given.
SetVersions(c, q) ==
    [c EXCEPT
       !.version = IF q.chartVersion # "" THEN q.chartVersion ELSE @,
       !.appVersion = IF q.appVersion # "" THEN q.appVersion ELSE @]

\* push(): helm.GetChartByName, then the version overrides.
GetChart ==
    /\ pc = "chart"
    /\ \E ok \in BOOLEAN :
          /\ calls' = Append(calls, Call("GetChartByName", ok))
          /\ IF ok
             THEN /\ chart' = <<SetVersions([name |-> p.chartName, version |-> "0.1.0",
                                             appVersion |-> "1.0", values |-> <<>>], p)>>
                  /\ pc' = "overrides"
                  /\ err' = err
             ELSE /\ chart' = chart
                  /\ Return(<<ErrorNew("no chart found")>>)
    /\ UNCHANGED <<posArgs, argFlags, environ, p, repo, client, tmp, defers,
                   resp, rbody, out, exitCode>>

\* push(): chart.OverrideValues, called only when --set was given.
OverrideValues ==
    /\ pc = "overrides"
    /\ IF Len(p.overrides) > 0
       THEN \E ok \in BOOLEAN :
               /\ calls' = Append(calls, Call("OverrideValues", ok))
               /\ IF ok
                  THEN /\ chart' = <<[chart[1] EXCEPT !.values = p.overrides]>>
                       /\ pc' = "client"
                       /\ err' = err
                  ELSE /\ chart' = chart
                       /\ Return(<<ErrorNew("invalid override")>>)
       ELSE /\ pc' = "client"
            /\ UNCHANGED <<calls, chart, err>>
    /\ UNCHANGED <<posArgs, argFlags, environ, p, repo, client, tmp, defers,
                   resp, rbody, out, exitCode>>

\* ApplyRepo with the stored entry overwriting what flags and environment gave.
ApplyRepoOverwrite(q, r) ==
    IF r # <<>>
    THEN [q EXCEPT
            !.repository = r[1].URL,
            !.username = r[1].Username,
            !.password = r[1].Password,
            !.caFile = r[1].CAFile,
            !.certFile = r[1].CertFile,
            !.keyFile = r[1].KeyFile]
    ELSE q

\* push(): a stored entry gives the URL, and each credential or TLS file
\* that is still empty.
ApplyRepo(q, r) ==
    IF r # <<>>
    THEN [q EXCEPT
            !.repository = r[1].URL,
            !.username = IF @ = "" THEN r[1].Username ELSE @,
            !.password = IF @ = "" THEN r[1].Password ELSE @,
            !.caFile = IF @ = "" THEN r[1].CAFile ELSE @,
            !.certFile = IF @ = "" THEN r[1].CertFile ELSE @,
            !.keyFile = IF @ = "" THEN r[1].KeyFile ELSE @]
    ELSE q

\* The options artifactory.NewClient is called with.
ClientOptions(q) ==
    [URL |-> q.repository, Path |-> q.path, Username |-> q.username,
     Password |-> q.password, AccessToken |-> q.accessToken, ApiKey |-> q.apiKey,
     CAFile |-> q.caFile, CertFile |-> q.certFile, KeyFile |-> q.keyFile,
     InsecureSkipVerify |-> q.insecureSkipVerify]

\* push(): the stored entry is applied and the client is built.
NewClient ==
    /\ pc = "client"
    /\ p' = ApplyRepo(p, repo)
    /\ client' = <<ClientOptions(p')>>
    /\ \E ok \in BOOLEAN :
          /\ calls' = Append(calls, Call("NewClient", ok))
          /\ IF ok
             THEN pc' = "tempdir" /\ err' = err
             ELSE Return(<<ErrorNew("invalid TLS configuration")>>)
    /\ UNCHANGED <<posArgs, argFlags, environ, repo, chart, tmp, defers,
                   resp, rbody, out, exitCode>>

\* push(): ioutil.TempDir, and defer os.RemoveAll(tmp) once it exists.
TempDir ==
    /\ pc = "tempdir"
    /\ \E ok \in BOOLEAN :
          /\ calls' = Append(calls, Call("TempDir", ok))
          /\ IF ok
             THEN /\ tmp' = "exists"
                  /\ defers' = Append(defers, "RemoveAll")
                  /\ pc' = "package"
                  /\ err' = err
             ELSE /\ UNCHANGED <<tmp, defers>>
                  /\ Return(<<ErrorNew("cannot create temporary directory")>>)
    /\ UNCHANGED <<posArgs, argFlags, environ, p, repo, chart, client,
                   resp, rbody, out, exitCode>>

\* CreateChartPackage with its error left unchecked.
CreateChartPackageUnchecked ==
    /\ pc = "package"
    /\ \E ok \in BOOLEAN :
          /\ calls' = Append(calls, Call("CreateChartPackage", ok))
          /\ pc' = "upload"
          /\ err' = err
    /\ UNCHANGED <<posArgs, argFlags, environ, p, repo, chart, client, tmp, defers,
                   resp, rbody, out, exitCode>>

\* push(): helm.CreateChartPackage(chart, tmp)
CreateChartPackage ==
    /\ pc = "package"
    /\ \E ok \in BOOLEAN :
          /\ calls' = Append(calls, Call("CreateChartPackage", ok))
          /\ IF ok
             THEN pc' = "upload" /\ err' = err
             ELSE Return(<<ErrorNew("cannot package chart")>>)
    /\ UNCHANGED <<posArgs, argFlags, environ, p, repo, chart, client, tmp, defers,
                   resp, rbody, out, exitCode>>

\* UploadChartPackage tried again after a transport error.
UploadChartPackageRetry ==
    /\ pc = "upload"
    /\ \/ /\ calls' = Append(calls, Call("UploadChartPackage", FALSE))
          /\ resp' = resp
          /\ pc' = "upload"
          /\ err' = err
       \/ \E status \in UploadStatuses :
             /\ calls' = Append(calls, Answered("UploadChartPackage", status))
             /\ resp' = <<status>>
             /\ pc' = "pushResponse"
             /\ err' = err
    /\ UNCHANGED <<posArgs, argFlags, environ, p, repo, chart, client, tmp, defers,
                   rbody, out, exitCode>>

\* push(): client.UploadChartPackage, the PUT; it fails in transport or
\* hands back the server's response.
UploadChartPackage ==
    /\ pc = "upload"
    /\ \/ /\ calls' = Append(calls, Call("UploadChartPackage", FALSE))
          /\ resp' = resp
          /\ Return(<<ErrorNew("upload: transport error")>>)
       \/ \E status \in UploadStatuses :
             /\ calls' = Append(calls, Answered("UploadChartPackage", status))
             /\ resp' = <<status>>
             /\ pc' = "pushResponse"
             /\ err' = err
    /\ UNCHANGED <<posArgs, argFlags, environ, p, repo, chart, client, tmp, defers,
                   rbody, out, exitCode>>

\* HandlePushResponse taking every 2xx status for success.
HandlePushResponseAny2xx(status, read) ==
    IF status \notin 200..299
    THEN IF read = <<>>
         THEN [err |-> <<ErrorNew("read: unexpected EOF")>>, rbody |-> <<>>, out |-> <<>>]
         ELSE [err |-> <<GetArtifactoryError(read[1], status)>>, rbody |-> read,
               out |-> <<>>]
    ELSE [err |-> <<>>, rbody |-> <<>>, out |-> <<Text("Done.")>>]

\* The result of handlePushResponse(resp) when ReadAll, if called, gives
\* `read`: the error returned, the bytes read and the line printed.
HandlePushResponse(status, read) ==
    IF status # StatusCreated
    THEN IF read = <<>>
         THEN [err |-> <<ErrorNew("read: unexpected EOF")>>, rbody |-> <<>>, out |-> <<>>]
         ELSE [err |-> <<GetArtifactoryError(read[1], status)>>, rbody |-> read,
               out |-> <<>>]
    ELSE [err |-> <<>>, rbody |-> <<>>, out |-> <<Text("Done.")>>]

\* push(): if err = handlePushResponse(resp); err != nil { return err }
PushResponse ==
    /\ pc = "pushResponse"
    /\ \E read \in (IF resp[1] # StatusCreated THEN ReadOutcomes ELSE {<<>>}) :
          LET r == HandlePushResponse(resp[1], read)
          IN  /\ rbody' = r.rbody
              /\ out' = out \o r.out
              /\ IF r.err # <<>>
                 THEN Return(r.err)
                 ELSE pc' = "reindex" /\ err' = r.err
    /\ UNCHANGED <<posArgs, argFlags, environ, p, repo, chart, client, tmp, defers,
                   calls, resp, exitCode>>

\* SkipReindex never taken: the reindex is always triggered.
SkipReindexIgnored(q) == FALSE

\* push(): if p.skipReindex
SkipReindex(q) == q.skipReindex

\* push(): return nil when skipReindex, else client.ReindexArtifactoryRepo,
\* the POST.
Reindex ==
    /\ pc = "reindex"
    /\ IF SkipReindex(p)
       THEN /\ Return(<<>>)
            /\ UNCHANGED <<calls, resp>>
       ELSE \/ /\ calls' = Append(calls, Call("ReindexArtifactoryRepo", FALSE))
               /\ resp' = resp
               /\ Return(<<ErrorNew("reindex: transport error")>>)
            \/ \E status \in ReindexStatuses :
                  /\ calls' = Append(calls, Answered("ReindexArtifactoryRepo", status))
                  /\ resp' = <<status>>
                  /\ pc' = "reindexResponse"
                  /\ err' = err
    /\ UNCHANGED <<posArgs, argFlags, environ, p, repo, chart, client, tmp, defers,
                   rbody, out, exitCode>>

\* HandleReindexResponse taking every 2xx status for success.
HandleReindexResponseAny2xx(status, read) ==
    IF read = <<>>
    THEN [err |-> <<ErrorNew("read: unexpected EOF")>>, rbody |-> <<>>, out |-> <<>>]
    ELSE IF status \notin 200..299
    THEN [err |-> <<GetArtifactoryError(read[1], status)>>, rbody |-> read, out |-> <<>>]
    ELSE [err |-> <<>>, rbody |-> read, out |-> <<Text(read[1])>>]

\* The result of handleReindexResponse(resp) when ReadAll gives `read`.
HandleReindexResponse(status, read) ==
    IF read = <<>>
    THEN [err |-> <<ErrorNew("read: unexpected EOF")>>, rbody |-> <<>>, out |-> <<>>]
    ELSE IF status # StatusOK
    THEN [err |-> <<GetArtifactoryError(read[1], status)>>, rbody |-> read, out |-> <<>>]
    ELSE [err |-> <<>>, rbody |-> read, out |-> <<Text(read[1])>>]

\* push(): return handleReindexResponse(resp)
ReindexResponse ==
    /\ pc = "reindexResponse"
    /\ \E read \in ReadOutcomes :
          LET r == HandleReindexResponse(resp[1], read)
          IN  /\ rbody' = r.rbody
              /\ out' = out \o r.out
              /\ Return(r.err)
    /\ UNCHANGED <<posArgs, argFlags, environ, p, repo, chart, client, tmp, defers,
                   calls, resp, exitCode>>

\* RunDefers with the removal skipped when push() returns.
RunDefersSkipped(d, t) == t

\* The state of the scratch directory after the deferred calls of push()
\* have run.
RunDefers(d, t) ==
    IF \E i \in 1..Len(d) : d[i] = "RemoveAll" THEN "removed" ELSE t

\* push() returns: its deferred calls run, then RunE and Execute hand the
\* error to main.
PushReturn ==
    /\ pc = "return"
    /\ tmp' = RunDefers(defers, tmp)
    /\ calls' = calls \o [i \in 1..Len(defers) |-> Call(defers[Len(defers) + 1 - i], TRUE)]
    /\ defers' = <<>>
    /\ pc' = "main"
    /\ UNCHANGED <<posArgs, argFlags, environ, p, repo, chart, client,
                   resp, rbody, err, out, exitCode>>

\* main: an error from cmd.Execute() is printed and the process exits 1;
\* otherwise main returns and the process exits 0.
MainExit ==
    /\ pc = "main"
    /\ IF err # <<>>
       THEN /\ out' = Append(out, err[1])
            /\ exitCode' = <<1>>
       ELSE /\ out' = out
            /\ exitCode' = <<0>>
    /\ pc' = "exited"
    /\ UNCHANGED <<posArgs, argFlags, environ, p, repo, chart, client, tmp, defers,
                   calls, resp, rbody, err>>

Next ==
    \/ NewPushCmd
    \/ RunE
    \/ ResolveRepository
    \/ GetChart
    \/ OverrideValues
    \/ NewClient
    \/ TempDir
    \/ CreateChartPackage
    \/ UploadChartPackage
    \/ PushResponse
    \/ Reindex
    \/ ReindexResponse
    \/ PushReturn
    \/ MainExit

Spec == Init /\ [][Next]_vars

(***************************************************************************)
(* The error decoder on its own: getArtifactoryError applied to every body *)
(* and status of the model.                                                *)
(***************************************************************************)
DecodeStatuses == {200, 400, 401, 404, 409, 500}

InitDecode ==
    /\ pc = "decode"
    /\ posArgs = <<>>
    /\ argFlags = [f \in FlagNames |-> <<>>]
    /\ environ = [e \in EnvNames |-> <<>>]
    /\ p = ZeroPushCmd
    /\ repo = <<>>
    /\ chart = <<>>
    /\ client = <<>>
    /\ tmp = "none"
    /\ defers = <<>>
    /\ calls = <<>>
    /\ resp \in {<<code>> : code \in DecodeStatuses}
    /\ rbody \in {<<b>> : b \in Bodies}
    /\ err = <<>>
    /\ out = <<>>
    /\ exitCode = <<>>

\* return getArtifactoryError(b, resp.StatusCode)
Decode ==
    /\ pc = "decode"
    /\ err' = <<GetArtifactoryError(rbody[1], resp[1])>>
    /\ pc' = "decoded"
    /\ UNCHANGED <<posArgs, argFlags, environ, p, repo, chart, client, tmp, defers,
                   calls, resp, rbody, out, exitCode>>

NextDecode == Decode

SpecDecode == InitDecode /\ [][NextDecode]_vars

(***************************************************************************)
(* Properties.                                                             *)
(***************************************************************************)
CallsOf(name) == {i \in 1..Len(calls) : calls[i].name = name}

HasCall(name) == CallsOf(name) # {}

Failed(name) == \E i \in CallsOf(name) : ~calls[i].ok

\* The statuses the server answered the upload with.
UploadAnswers == {calls[i].status : i \in {j \in CallsOf("UploadChartPackage") : calls[j].ok}}

Printed(line) == \E i \in 1..Len(out) : out[i] = line

PushOver == pc \in {"return", "main", "exited"}

FlagGiven(f) == Len(argFlags[f]) > 0

FlagValue(f) == argFlags[f][Len(argFlags[f])]

EnvSet(f) == Len(environ[EnvOf(f)]) > 0

EnvValue(f) == environ[EnvOf(f)][1]

StringField(q, f) ==
    CASE f = "path" -> q.path
      [] f = "username" -> q.username
      [] f = "password" -> q.password
      [] f = "ca-file" -> q.caFile
      [] f = "cert-file" -> q.certFile
      [] f = "key-file" -> q.keyFile

BoolField(q, f) ==
    CASE f = "insecure" -> q.insecureSkipVerify
      [] f = "skip-reindex" -> q.skipReindex

\* The argument is a URL: it begins with http:// or https://.
IsURLArg(s) ==
    \/ (Len(s) >= 7 /\ SubSeq(s, 1, 7) = <<"h", "t", "t", "p", ":", "/", "/">>)
    \/ (Len(s) >= 8 /\ SubSeq(s, 1, 8) = <<"h", "t", "t", "p", "s", ":", "/", "/">>)

\* C1: after flag parsing and setFieldsFromEnv, every overridable field
\* (username, password, CA file, cert file, key file, path, insecure,
\* skip-reindex) whose environment variable is set holds the environment
\* value when its flag is not given, and the flag value when it is.
C1_FlagOverEnvEveryField ==
    pc = "resolve" =>
        /\ \A f \in {"username", "password", "ca-file", "cert-file", "key-file", "path"} :
              EnvSet(f) =>
                  StringField(p, f) = IF FlagGiven(f) THEN FlagValue(f) ELSE EnvValue(f)
        /\ \A f \in {"insecure", "skip-reindex"} :
              EnvSet(f) =>
                  BoolField(p, f) = IF FlagGiven(f)
                                    THEN (FlagValue(f) = "true")
                                    ELSE (EnvValue(f) = "true")

\* C2 as stated: once the upload's response is handled, push() has gone on
\* (printed "Done.") iff the status is 201; any other status was passed to
\* getArtifactoryError, and the process exits non-zero.
C2_Not201AlwaysDecoded ==
    \A st \in UploadAnswers :
        pc # "pushResponse" =>
            /\ Printed(Text("Done.")) <=> st = StatusCreated
            /\ pc = "reindex" => st = StatusCreated
            /\ st # StatusCreated =>
                  /\ rbody # <<>>
                  /\ err = <<GetArtifactoryError(rbody[1], st)>>
                  /\ pc = "exited" => exitCode = <<1>>

\* C2 amended: once the upload's response is handled, push() has gone on
\* (printed "Done.") iff the status is 201; any other status ends the
\* process non-zero, with the error of getArtifactoryError(body, status)
\* when the body could be read and with the read error when it could not.
C2_UploadSuccessExactly201 ==
    \A st \in UploadAnswers :
        pc # "pushResponse" =>
            /\ Printed(Text("Done.")) <=> st = StatusCreated
            /\ pc = "reindex" => st = StatusCreated
            /\ st # StatusCreated =>
                  /\ PushOver
                  /\ err # <<>>
                  /\ rbody # <<>> => err = <<GetArtifactoryError(rbody[1], st)>>
                  /\ rbody = <<>> => err[1].format \notin {FormatGeneric, FormatMessage}
                  /\ pc = "exited" => exitCode = <<1>>

C2_Witness ==
    /\ pc = "exited"
    /\ UploadAnswers = {200}
    /\ exitCode = <<1>>
    /\ rbody # <<>>
    /\ err = <<Errorf(FormatMessage, 200, "conflict")>>

\* C3: a reindex is requested iff the upload was answered 201 and
\* skipReindex is false; with skipReindex true the process exits 0 right
\* after the upload's confirmation, with no reindex request.
C3_ReindexIffNotSkipped ==
    /\ HasCall("ReindexArtifactoryRepo") =>
          /\ StatusCreated \in UploadAnswers
          /\ ~p.skipReindex
    /\ (PushOver /\ StatusCreated \in UploadAnswers /\ ~p.skipReindex) =>
          HasCall("ReindexArtifactoryRepo")
    /\ (pc = "exited" /\ StatusCreated \in UploadAnswers /\ p.skipReindex) =>
          /\ exitCode = <<0>>
          /\ ~HasCall("ReindexArtifactoryRepo")
          /\ out = <<Text("Done.")>>
          /\ calls[Len(calls) - 1].name = "UploadChartPackage"

C3_Witness ==
    /\ pc = "exited"
    /\ StatusCreated \in UploadAnswers
    /\ p.skipReindex
    /\ exitCode = <<0>>
    /\ ~HasCall("ReindexArtifactoryRepo")

\* C4: once push() has returned, a scratch directory that was created is
\* removed, on the failing paths (which end in os.Exit(1)) and on the
\* successful ones; it never exists when the process has exited.
C4_TmpRemovedOnEveryPath ==
    /\ pc \in {"main", "exited"} => tmp # "exists"
    /\ (pc \in {"main", "exited"} /\ HasCall("TempDir") /\ ~Failed("TempDir")) =>
          /\ tmp = "removed"
          /\ calls[Len(calls)].name = "RemoveAll"

C4_Witness ==
    /\ pc = "exited"
    /\ exitCode = <<1>>
    /\ tmp = "removed"
    /\ Failed("ReindexArtifactoryRepo")

\* C5: when GetChartByName, OverrideValues, NewClient, TempDir or
\* CreateChartPackage has returned an error, neither the upload nor the
\* reindex is ever requested.
C5_NoRequestAfterLocalFailure ==
    (\E n \in {"GetChartByName", "OverrideValues", "NewClient", "TempDir",
               "CreateChartPackage"} : Failed(n)) =>
        /\ ~HasCall("UploadChartPackage")
        /\ ~HasCall("ReindexArtifactoryRepo")

C5_Witness ==
    /\ pc = "exited"
    /\ Failed("CreateChartPackage")
    /\ exitCode = <<1>>
    /\ ~HasCall("UploadChartPackage")

\* C6: a reindex that fails in transport or is answered with a status other
\* than 200 makes push() return an error and the process exit non-zero; the
\* upload answered 201 came right before it and no request follows it; a
\* reindex after which the process exits 0 was answered 200.
C6_ReindexFailureIsFailure ==
    \A i \in CallsOf("ReindexArtifactoryRepo") :
        /\ (PushOver /\ (~calls[i].ok \/ calls[i].status # StatusOK)) =>
              /\ err # <<>>
              /\ pc = "exited" => exitCode = <<1>>
        /\ i > 1
        /\ calls[i - 1] = Answered("UploadChartPackage", StatusCreated)
        /\ \A j \in (i + 1)..Len(calls) : calls[j].name = "RemoveAll"
        /\ (pc = "exited" /\ exitCode = <<0>>) => calls[i] = Answered("ReindexArtifactoryRepo", StatusOK)

C6_Witness ==
    /\ pc = "exited"
    /\ exitCode = <<1>>
    /\ \E i \in CallsOf("ReindexArtifactoryRepo") : calls[i].ok /\ calls[i].status = 201
    /\ StatusCreated \in UploadAnswers

\* C7: getArtifactoryError(b, code) gives the generic message with the code
\* and the raw body when the body does not decode or its errors list is
\* empty, and otherwise "<code>: <message of the first record>" with the
\* code passed in; the records' own status and the later records play no part.
C7_DecoderCases ==
    pc = "decoded" =>
        LET b == rbody[1]
            code == resp[1]
            j == BodyJSON[b]
            decodes == \/ j.kind = "null"
                       \/ /\ j.kind = "object"
                          /\ j.errorsKind \in {"absent", "null", "list"}
                          /\ \A i \in 1..Len(j.errors) : j.errors[i].typeOK
        IN  IF ~decodes \/ Len(j.errors) = 0
            THEN err = <<Sprintf(FormatGeneric, code, b)>>
            ELSE err = <<Sprintf(FormatMessage, code, j.errors[1].Message)>>

C7_Witness ==
    /\ pc = "decoded"
    /\ resp = <<409>>
    /\ Len(BodyJSON[rbody[1]].errors) = 2
    /\ BodyJSON[rbody[1]].errors[1].Status = 401
    /\ err = <<Sprintf("%d: %s", 409, "first")>>

\* C8: a repository argument beginning with http:// or https:// is never
\* looked up by name (GetRepoByName is called iff the argument is no URL),
\* and the client is built for the argument itself with the credentials and
\* TLS files that flags and environment gave, none from a stored entry.
C8_URLArgNeverLookedUp ==
    Len(posArgs) = NumArgs =>
        /\ pc \notin {"start", "execute", "resolve"} =>
              (HasCall("GetRepoByName") <=> ~IsURLArg(posArgs[2]))
        /\ IsURLArg(posArgs[2]) =>
              /\ ~HasCall("GetRepoByName")
              /\ repo = <<>>
              /\ client # <<>> =>
                    /\ client[1].URL = posArgs[2]
                    /\ \A f \in {"username", "password", "ca-file", "cert-file", "key-file"} :
                          StringField(p, f) =
                              IF FlagGiven(f) THEN FlagValue(f)
                              ELSE IF EnvSet(f) THEN EnvValue(f) ELSE ""
                    /\ client[1] = ClientOptions(p)

C8_Witness ==
    /\ pc = "exited"
    /\ Len(posArgs) = NumArgs
    /\ posArgs[2] = URLHttp
    /\ HasCall("UploadChartPackage")
    /\ client[1].URL = URLHttp
    /\ client[1].Username = ""

\* C9 as stated: for a named repository the client gets, for each of
\* username, password, CA file, cert file and key file, the flag value if
\* the flag is set, else the environment value if the variable is set, else
\* the stored entry's value; its URL is the stored entry's.
C9_EnvSetWinsOverStored ==
    (Len(posArgs) = NumArgs /\ ~IsURLArg(posArgs[2]) /\ client # <<>>) =>
        LET stored == RepoFile[posArgs[2]]
            want(f, s) == IF FlagGiven(f) THEN FlagValue(f)
                          ELSE IF EnvSet(f) THEN EnvValue(f) ELSE s
        IN  /\ client[1].URL = stored.URL
            /\ client[1].Username = want("username", stored.Username)
            /\ client[1].Password = want("password", stored.Password)
            /\ client[1].CAFile = want("ca-file", stored.CAFile)
            /\ client[1].CertFile = want("cert-file", stored.CertFile)
            /\ client[1].KeyFile = want("key-file", stored.KeyFile)

\* C9 amended: for a named repository the client gets, for each of
\* username, password, CA file, cert file and key file, the flag value if
\* it is not empty, else the environment value if the variable is set and
\* not empty, else the stored entry's value; its URL is the stored entry's.
C9_NonEmptyEnvWinsOverStored ==
    (Len(posArgs) = NumArgs /\ ~IsURLArg(posArgs[2]) /\ client # <<>>) =>
        LET stored == RepoFile[posArgs[2]]
            want(f, s) == IF FlagGiven(f) /\ FlagValue(f) # "" THEN FlagValue(f)
                          ELSE IF EnvSet(f) /\ EnvValue(f) # "" THEN EnvValue(f) ELSE s
        IN  /\ client[1].URL = stored.URL
            /\ client[1].Username = want("username", stored.Username)
            /\ client[1].Password = want("password", stored.Password)
            /\ client[1].CAFile = want("ca-file", stored.CAFile)
            /\ client[1].CertFile = want("cert-file", stored.CertFile)
            /\ client[1].KeyFile = want("key-file", stored.KeyFile)

C9_Witness ==
    /\ HasCall("UploadChartPackage")
    /\ posArgs[2] = NameStable
    /\ environ["HELM_REPO_PASSWORD"] = <<"env-value">>
    /\ client[1].Password = "env-value"
    /\ client[1].Username = "stored-user"
    /\ client[1].URL = URLStable

\* The calls that come before the upload, in the order of push().
CallsBeforeUpload ==
    <<IF IsURLArg(posArgs[2]) THEN Call("ParseRequestURI", TRUE)
                               ELSE Call("GetRepoByName", TRUE),
      Call("GetChartByName", TRUE)>>
    \o (IF FlagGiven("set") THEN <<Call("OverrideValues", TRUE)>> ELSE <<>>)
    \o <<Call("NewClient", TRUE), Call("TempDir", TRUE), Call("CreateChartPackage", TRUE)>>

\* C10: one invocation makes at most one upload and at most one reindex
\* request; the upload comes after the repository was resolved, the chart
\* loaded, the overrides applied, the client built and the package created,
\* each with success and in that order; the reindex comes right after an
\* upload answered 201; and with other than 2 positional arguments the
\* command fails before any of these steps.
C10_LinearOrderNoRetry ==
    /\ Cardinality(CallsOf("UploadChartPackage")) <= 1
    /\ Cardinality(CallsOf("ReindexArtifactoryRepo")) <= 1
    /\ \A i \in CallsOf("UploadChartPackage") :
          SubSeq(calls, 1, i - 1) = CallsBeforeUpload
    /\ \A i \in CallsOf("ReindexArtifactoryRepo") :
          /\ i > 1
          /\ calls[i - 1] = Answered("UploadChartPackage", StatusCreated)
    /\ Len(posArgs) # NumArgs =>
          /\ calls = <<>>
          /\ pc \in {"start", "execute", "main", "exited"}
          /\ pc = "exited" => exitCode = <<1>>

C10_Witness ==
    /\ pc = "exited"
    /\ exitCode = <<0>>
    /\ FlagGiven("set")
    /\ Len(calls) = 9
    /\ calls[7].name = "UploadChartPackage"
    /\ calls[8] = Answered("ReindexArtifactoryRepo", StatusOK)
    /\ calls[9].name = "RemoveAll"
====
